---- MODULE Spec2Model ----
(***************************************************************************)
(* OatBuild front end (oatbuild.py): scan_file turns the text of a build   *)
(* file into tokens, parse_tokens walks them with a TokenList cursor and   *)
(* fills a CompileInfo record; main stops when an error was printed.       *)
(* Text is a sequence of one-character strings; Python's 0-based indices   *)
(* are kept, so Python's s[i] is s[i + 1] here.                            *)
(***************************************************************************)
EXTENDS Integers, Sequences, FiniteSets, TLC

\* ---- string literals of the source, as character sequences ----
S_SetProjectName == <<"S", "e", "t", "P", "r", "o", "j", "e", "c", "t", "N", "a", "m", "e">>
S_SetCompiler == <<"S", "e", "t", "C", "o", "m", "p", "i", "l", "e", "r">>
S_SetLanguageVersion == <<"S", "e", "t", "L", "a", "n", "g", "u", "a", "g", "e", "V", "e", "r", "s", "i", "o", "n">>
S_SetTargetArch == <<"S", "e", "t", "T", "a", "r", "g", "e", "t", "A", "r", "c", "h">>
S_SetOutputType == <<"S", "e", "t", "O", "u", "t", "p", "u", "t", "T", "y", "p", "e">>
S_SetBuildType == <<"S", "e", "t", "B", "u", "i", "l", "d", "T", "y", "p", "e">>
S_AddFile == <<"A", "d", "d", "F", "i", "l", "e">>
S_AddSourcePath == <<"A", "d", "d", "S", "o", "u", "r", "c", "e", "P", "a", "t", "h">>
S_AddConstant == <<"A", "d", "d", "C", "o", "n", "s", "t", "a", "n", "t">>
S_AddIncludePath == <<"A", "d", "d", "I", "n", "c", "l", "u", "d", "e", "P", "a", "t", "h">>
S_AddLibrary == <<"A", "d", "d", "L", "i", "b", "r", "a", "r", "y">>
S_AddObjectFile == <<"A", "d", "d", "O", "b", "j", "e", "c", "t", "F", "i", "l", "e">>
S_AddCompilerFlag == <<"A", "d", "d", "C", "o", "m", "p", "i", "l", "e", "r", "F", "l", "a", "g">>
S_AddLinkerFlag == <<"A", "d", "d", "L", "i", "n", "k", "e", "r", "F", "l", "a", "g">>
S_gcc == <<"g", "c", "c">>
S_cl == <<"c", "l">>
S_clang == <<"c", "l", "a", "n", "g">>
S_clang_cl == <<"c", "l", "a", "n", "g", "-", "c", "l">>
S_c89 == <<"c", "8", "9">>
S_c99 == <<"c", "9", "9">>
S_c11 == <<"c", "1", "1">>
S_c17 == <<"c", "1", "7">>
S_32 == <<"3", "2">>
S_64 == <<"6", "4">>
S_shared == <<"s", "h", "a", "r", "e", "d">>
S_object == <<"o", "b", "j", "e", "c", "t">>
S_executable == <<"e", "x", "e", "c", "u", "t", "a", "b", "l", "e">>
S_debug == <<"d", "e", "b", "u", "g">>
S_release == <<"r", "e", "l", "e", "a", "s", "e">>
S_empty == << >>
S_lparen == <<"(">>
S_rparen == <<")">>
S_comma == <<",">>
S_newline == <<"\\", "n">>

\* ---- class TokenType ----
TokenType_STRING == 1
TokenType_LEFT_PAREN == 2
TokenType_RIGHT_PAREN == 3
TokenType_COMMA == 4
TokenType_LINE_END == 5

\* class Token
Token(tokenType, lexeme, line) == [tokenType |-> tokenType, lexeme |-> lexeme, line |-> line]

\* Python's None where a Token is expected (tokenType 0 is no TokenType)
None == [tokenType |-> 0, lexeme |-> << >>, line |-> 0]

\* ---- class TokenList: [tokens, current] ----
TokenList(tokens) == [tokens |-> tokens, current |-> 0]

\* advance: the cursor always moves, also at or past the end
advance(tl) ==
    [tl  |-> [tl EXCEPT !.current = @ + 1],
     ret |-> IF (tl.current + 1) - 1 >= Len(tl.tokens)
             THEN None
             ELSE tl.tokens[(tl.current + 1) - 1 + 1]]

\* peek: tokens[current]; a list index out of range raises IndexError
peek(tl) ==
    IF tl.current >= Len(tl.tokens)
    THEN [exc |-> "IndexError", ret |-> None]
    ELSE [exc |-> "none", ret |-> tl.tokens[tl.current + 1]]

is_at_end(tl) == tl.current >= Len(tl.tokens)

\* skip_line that stops at the wrong kind of token
RECURSIVE skip_line_to_right_paren(_)
skip_line_to_right_paren(tl) ==
    LET a == advance(tl)
    IN  IF a.ret # None /\ a.ret.tokenType # TokenType_RIGHT_PAREN
        THEN skip_line_to_right_paren(a.tl)
        ELSE a.tl

RECURSIVE skip_line(_)
skip_line(tl) ==
    LET a == advance(tl)
    IN  IF a.ret # None /\ a.ret.tokenType # TokenType_LINE_END
        THEN skip_line(a.tl)
        ELSE a.tl

\* ---- scanner ----
\* the NUL character "\\0" of the source (no escape for it in a TLA+ string)
NUL == "NUL"

Letters == {"a", "b", "c", "d", "e", "f", "g", "h", "i", "j", "k", "l", "m",
            "n", "o", "p", "q", "r", "s", "t", "u", "v", "w", "x", "y", "z",
            "A", "B", "C", "D", "E", "F", "G", "H", "I", "J", "K", "L", "M",
            "N", "O", "P", "Q", "R", "S", "T", "U", "V", "W", "X", "Y", "Z"}
Digits == {"0", "1", "2", "3", "4", "5", "6", "7", "8", "9"}

\* str.isalnum for one character of the modelled alphabet
isalnum(c) == c \in Letters \cup Digits

is_valid_character(c) == isalnum(c) \/ c \in {"_", "-", ".", "/", "\\", ":", "="}

\* the inner while of scan_file: tokenEnd moves over valid characters
RECURSIVE scan_run(_, _)
scan_run(line, tokenEnd) ==
    IF tokenEnd < Len(line) /\ is_valid_character(line[tokenEnd + 1])
    THEN scan_run(line, tokenEnd + 1)
    ELSE tokenEnd

\* Python's line[tokenStart:tokenEnd]
Slice(line, tokenStart, tokenEnd) == SubSeq(line, tokenStart + 1, tokenEnd)

\* scan_line that does not know the tab as whitespace
RECURSIVE scan_line_tab_in_token(_, _, _, _, _)
scan_line_tab_in_token(line, index, tokenStart, tokenEnd, tokens) ==
    IF ~(tokenStart < Len(line))
    THEN tokens
    ELSE LET c == line[tokenStart + 1]
             end == IF c \in {"(", ")", ",", "\n", " ", NUL}
                    THEN tokenEnd
                    ELSE scan_run(line, tokenEnd)
             added ==
                 IF c = "(" THEN <<Token(TokenType_LEFT_PAREN, S_lparen, index + 1)>>
                 ELSE IF c = ")" THEN <<Token(TokenType_RIGHT_PAREN, S_rparen, index + 1)>>
                 ELSE IF c = "," THEN <<Token(TokenType_COMMA, S_comma, index + 1)>>
                 ELSE IF c = "\n" THEN <<Token(TokenType_LINE_END, S_newline, index + 1)>>
                 ELSE IF c \in {" ", NUL} THEN << >>
                 ELSE <<Token(TokenType_STRING, Slice(line, tokenStart, end), index + 1)>>
         IN  scan_line_tab_in_token(line, index, end, end + 1, tokens \o added)

\* the while loop of scan_file over one line; index is the 0-based line index
RECURSIVE scan_line(_, _, _, _, _)
scan_line(line, index, tokenStart, tokenEnd, tokens) ==
    IF ~(tokenStart < Len(line))
    THEN tokens
    ELSE LET c == line[tokenStart + 1]
             end == IF c \in {"(", ")", ",", "\n", " ", "\t", NUL}
                    THEN tokenEnd
                    ELSE scan_run(line, tokenEnd)
             added ==
                 IF c = "(" THEN <<Token(TokenType_LEFT_PAREN, S_lparen, index + 1)>>
                 ELSE IF c = ")" THEN <<Token(TokenType_RIGHT_PAREN, S_rparen, index + 1)>>
                 ELSE IF c = "," THEN <<Token(TokenType_COMMA, S_comma, index + 1)>>
                 ELSE IF c = "\n" THEN <<Token(TokenType_LINE_END, S_newline, index + 1)>>
                 ELSE IF c \in {" ", "\t", NUL} THEN << >>
                 ELSE <<Token(TokenType_STRING, Slice(line, tokenStart, end), index + 1)>>
         IN  scan_line(line, index, end, end + 1, tokens \o added)

\* the for loop of scan_file over the lines of the file
RECURSIVE scan_lines(_, _, _)
scan_lines(lines, index, tokens) ==
    IF index >= Len(lines)
    THEN tokens
    ELSE LET line == lines[index + 1]
         IN  IF line[1] = "\n"
             THEN scan_lines(lines, index + 1, tokens)
             ELSE scan_lines(lines, index + 1, scan_line(line, index, 0, 0, tokens))

scan_file(lines) == TokenList(scan_lines(lines, 0, << >>))

\* ---- class CompileInfo: the defaults of __init__ ----
CompileInfo ==
    [projectName |-> S_empty, compiler |-> S_gcc, languageVersion |-> S_c99,
     arch |-> S_64, outputType |-> S_executable, buildType |-> S_release,
     files |-> << >>, sourcePaths |-> << >>, constants |-> << >>,
     includePaths |-> << >>, libraries |-> << >>, objectFiles |-> << >>,
     compilerFlags |-> << >>, linkerFlags |-> << >>]

\* ---- the parser. m is the program state a parser function works on:   ----
\* ---- [tokenList, compileInfo, hadError, stderr, exc]; exc names an     ----
\* ---- exception that is propagating ("none" when there is none).        ----
Machine(tokenList) ==
    [tokenList |-> tokenList, compileInfo |-> CompileInfo, hadError |-> FALSE,
     stderr |-> << >>, exc |-> "none"]

\* print_error: sets the global flag and writes one message to stderr
print_error(m, line, msg) ==
    [m EXCEPT !.hadError = TRUE,
              !.stderr = Append(@, [line |-> line, msg |-> msg])]

\* tokenList.skip_line() on the token list of m
do_skip_line(m) == [m EXCEPT !.tokenList = skip_line(@)]

\* get_simple_command_param returning the last token read, not the parameter
get_simple_command_param_last_token(m, command) ==
    LET a == advance(m.tokenList)
        lparen == a.ret
        m1 == [m EXCEPT !.tokenList = a.tl]
    IN  IF lparen = None \/ lparen.tokenType # TokenType_LEFT_PAREN
        THEN [m |-> print_error(m1, command.line, "Expected ( after command."),
              ret |-> None]
        ELSE LET b == advance(m1.tokenList)
                 param == b.ret
                 m2 == [m1 EXCEPT !.tokenList = b.tl]
             IN  IF param = None
                 THEN [m |-> m2, ret |-> None]
                 ELSE LET c == advance(m2.tokenList)
                          rparen == c.ret
                          m3 == [m2 EXCEPT !.tokenList = c.tl]
                      IN  IF rparen = None \/ rparen.tokenType # TokenType_RIGHT_PAREN
                          THEN [m |-> print_error(m3, command.line,
                                                  "Expected ) after parameter."),
                                ret |-> None]
                          ELSE [m |-> m3, ret |-> rparen]

get_simple_command_param(m, command) ==
    LET a == advance(m.tokenList)
        lparen == a.ret
        m1 == [m EXCEPT !.tokenList = a.tl]
    IN  IF lparen = None \/ lparen.tokenType # TokenType_LEFT_PAREN
        THEN [m |-> print_error(m1, command.line, "Expected ( after command."),
              ret |-> None]
        ELSE LET b == advance(m1.tokenList)
                 param == b.ret
                 m2 == [m1 EXCEPT !.tokenList = b.tl]
             IN  IF param = None
                 THEN [m |-> m2, ret |-> None]
                 ELSE LET c == advance(m2.tokenList)
                          rparen == c.ret
                          m3 == [m2 EXCEPT !.tokenList = c.tl]
                      IN  IF rparen = None \/ rparen.tokenType # TokenType_RIGHT_PAREN
                          THEN [m |-> print_error(m3, command.line,
                                                  "Expected ) after parameter."),
                                ret |-> None]
                          ELSE [m |-> m3, ret |-> param]

\* simple_command_rest that leaves the cursor behind ")" when the parameter
\* is read
simple_command_rest_no_skip(r, command) ==
    IF r.ret = None /\ r.m.hadError = TRUE
    THEN [m |-> do_skip_line(r.m), ret |-> None]
    ELSE IF r.ret = None
    THEN [m |-> do_skip_line(print_error(r.m, command.line,
                                         "Expected parameter after command.")),
          ret |-> None]
    ELSE [m |-> r.m, ret |-> r.ret]

\* simple_command after its first line; r is what get_simple_command_param
\* gave: the state it left and param
simple_command_rest(r, command) ==
    IF r.ret = None /\ r.m.hadError = TRUE
    THEN [m |-> do_skip_line(r.m), ret |-> None]
    ELSE IF r.ret = None
    THEN [m |-> do_skip_line(print_error(r.m, command.line,
                                         "Expected parameter after command.")),
          ret |-> None]
    ELSE [m |-> do_skip_line(r.m), ret |-> r.ret]

simple_command(m, command) ==
    simple_command_rest(get_simple_command_param(m, command), command)

RECURSIVE consume_param(_, _)
RECURSIVE consume_comma(_, _)

\* result is the list the callers pass in; the functions return nothing
consume_param(m, result) ==
    LET p == peek(m.tokenList)
        param == p.ret
    IN  IF p.exc # "none"
        THEN [m |-> [m EXCEPT !.exc = p.exc], result |-> result]
        ELSE IF param = None
        THEN [m |-> m, result |-> result]
        ELSE IF param.tokenType = TokenType_STRING
        THEN consume_comma([m EXCEPT !.tokenList = advance(@).tl],
                           Append(result, param))
        ELSE [m |-> m, result |-> result]

consume_comma(m, result) ==
    LET p == peek(m.tokenList)
        comma == p.ret
    IN  IF p.exc # "none"
        THEN [m |-> [m EXCEPT !.exc = p.exc], result |-> result]
        ELSE IF comma = None
        THEN [m |-> m, result |-> result]
        ELSE IF comma.tokenType = TokenType_COMMA
        THEN consume_param([m EXCEPT !.tokenList = advance(@).tl], result)
        ELSE [m |-> m, result |-> result]

\* get_complex_command_params without the check for an empty parameter list
get_complex_command_params_no_empty_check(m, command) ==
    LET a == advance(m.tokenList)
        lparen == a.ret
        m1 == [m EXCEPT !.tokenList = a.tl]
    IN  IF lparen = None \/ lparen.tokenType # TokenType_LEFT_PAREN
        THEN [m |-> print_error(m1, command.line, "Expected ( after command."),
              none |-> TRUE, params |-> << >>]
        ELSE LET cp == consume_param(m1, << >>)
                 params == cp.result
             IN  IF cp.m.exc # "none"
                 THEN [m |-> cp.m, none |-> TRUE, params |-> << >>]
                 ELSE LET c == advance(cp.m.tokenList)
                          rparen == c.ret
                          m3 == [cp.m EXCEPT !.tokenList = c.tl]
                      IN  IF rparen = None \/ rparen.tokenType # TokenType_RIGHT_PAREN
                          THEN [m |-> print_error(m3, command.line,
                                                  "Expected ) after parameters."),
                                none |-> TRUE, params |-> << >>]
                          ELSE [m |-> m3, none |-> FALSE, params |-> params]

\* none is TRUE where the source returns None instead of a list
get_complex_command_params(m, command) ==
    LET a == advance(m.tokenList)
        lparen == a.ret
        m1 == [m EXCEPT !.tokenList = a.tl]
    IN  IF lparen = None \/ lparen.tokenType # TokenType_LEFT_PAREN
        THEN [m |-> print_error(m1, command.line, "Expected ( after command."),
              none |-> TRUE, params |-> << >>]
        ELSE LET cp == consume_param(m1, << >>)
                 params == cp.result
             IN  IF cp.m.exc # "none"
                 THEN [m |-> cp.m, none |-> TRUE, params |-> << >>]
                 ELSE IF Len(params) = 0
                 THEN [m |-> cp.m, none |-> TRUE, params |-> << >>]
                 ELSE LET c == advance(cp.m.tokenList)
                          rparen == c.ret
                          m3 == [cp.m EXCEPT !.tokenList = c.tl]
                      IN  IF rparen = None \/ rparen.tokenType # TokenType_RIGHT_PAREN
                          THEN [m |-> print_error(m3, command.line,
                                                  "Expected ) after parameters."),
                                none |-> TRUE, params |-> << >>]
                          ELSE [m |-> m3, none |-> FALSE, params |-> params]

\* complex_command after its first line; r is what get_complex_command_params
\* gave: the state it left and params (an exception passes through)
complex_command_rest(r, command) ==
    IF r.m.exc # "none"
    THEN [m |-> r.m, none |-> TRUE, params |-> << >>]
    ELSE IF r.none /\ r.m.hadError = TRUE
    THEN [m |-> do_skip_line(r.m), none |-> TRUE, params |-> << >>]
    ELSE IF r.none
    THEN [m |-> do_skip_line(print_error(r.m, command.line,
                                         "Expected parameters after command.")),
          none |-> TRUE, params |-> << >>]
    ELSE [m |-> do_skip_line(r.m), none |-> FALSE, params |-> r.params]

complex_command(m, command) ==
    complex_command_rest(get_complex_command_params(m, command), command)

\* the lexemes of a parameter list, in order
Lexemes(params) == [i \in 1..Len(params) |-> params[i].lexeme]

\* store_param that writes the compiler field as well
store_param_and_compiler(r, field) ==
    IF r.ret # None
    THEN [r.m EXCEPT !.compileInfo[field] = r.ret.lexeme,
                     !.compileInfo.compiler = r.ret.lexeme]
    ELSE r.m

\* branch of handle_command for SetProjectName, no validation: r is what
\* simple_command gave, the state it left and param
store_param(r, field) ==
    IF r.ret # None
    THEN [r.m EXCEPT !.compileInfo[field] = r.ret.lexeme]
    ELSE r.m

\* store_valid_param that stores the value before it is checked
store_param_then_check(r, field, legal, msg) ==
    IF r.ret # None
    THEN IF r.ret.lexeme \in legal
         THEN [r.m EXCEPT !.compileInfo[field] = r.ret.lexeme]
         ELSE print_error([r.m EXCEPT !.compileInfo[field] = r.ret.lexeme],
                          r.ret.line, msg)
    ELSE r.m

\* branch of handle_command for a Set command with an enumerated value: r is
\* what simple_command gave, the state it left and param
store_valid_param(r, field, legal, msg) ==
    IF r.ret # None
    THEN IF r.ret.lexeme \in legal
         THEN [r.m EXCEPT !.compileInfo[field] = r.ret.lexeme]
         ELSE print_error(r.m, r.ret.line, msg)
    ELSE r.m

\* append_params that assigns the list instead of appending to it
assign_params(r, field) ==
    IF ~r.none
    THEN [r.m EXCEPT !.compileInfo[field] = Lexemes(r.params)]
    ELSE r.m

\* branch of handle_command for an Add command: r is what complex_command
\* gave, the state it left and params
append_params(r, field) ==
    IF ~r.none
    THEN [r.m EXCEPT !.compileInfo[field] = @ \o Lexemes(r.params)]
    ELSE r.m

LegalCompilers == {S_gcc, S_cl, S_clang, S_clang_cl}
LegalLanguageVersions == {S_c89, S_c99, S_c11, S_c17}
LegalArchs == {S_32, S_64}
LegalOutputTypes == {S_shared, S_object, S_executable}
LegalBuildTypes == {S_debug, S_release}

handle_command(m) ==
    LET a == advance(m.tokenList)
        command == a.ret
        m1 == [m EXCEPT !.tokenList = a.tl]
    IN  IF command.lexeme = S_SetProjectName
        THEN store_param(simple_command(m1, command), "projectName")
        ELSE IF command.lexeme = S_SetCompiler
        THEN store_valid_param(simple_command(m1, command), "compiler",
                               LegalCompilers, "Invalid compiler.")
        ELSE IF command.lexeme = S_SetLanguageVersion
        THEN store_valid_param(simple_command(m1, command), "languageVersion",
                               LegalLanguageVersions, "Invalid language version.")
        ELSE IF command.lexeme = S_SetTargetArch
        THEN store_valid_param(simple_command(m1, command), "arch",
                               LegalArchs, "Invalid architeture.")
        ELSE IF command.lexeme = S_SetOutputType
        THEN store_valid_param(simple_command(m1, command), "outputType",
                               LegalOutputTypes, "Invalid output type.")
        ELSE IF command.lexeme = S_SetBuildType
        THEN store_valid_param(simple_command(m1, command), "buildType",
                               LegalBuildTypes, "Invalid build type.")
        ELSE IF command.lexeme = S_AddFile
        THEN append_params(complex_command(m1, command), "files")
        ELSE IF command.lexeme = S_AddSourcePath
        THEN append_params(complex_command(m1, command), "sourcePaths")
        ELSE IF command.lexeme = S_AddConstant
        THEN append_params(complex_command(m1, command), "constants")
        ELSE IF command.lexeme = S_AddIncludePath
        THEN append_params(complex_command(m1, command), "includePaths")
        ELSE IF command.lexeme = S_AddLibrary
        THEN append_params(complex_command(m1, command), "libraries")
        ELSE IF command.lexeme = S_AddObjectFile
        THEN append_params(complex_command(m1, command), "objectFiles")
        ELSE IF command.lexeme = S_AddCompilerFlag
        THEN append_params(complex_command(m1, command), "compilerFlags")
        ELSE IF command.lexeme = S_AddLinkerFlag
        THEN append_params(complex_command(m1, command), "linkerFlags")
        \* tokenList.skip_line(command): skip_line takes no argument, TypeError
        ELSE [print_error(m1, command.line, "Unkown command.")
                 EXCEPT !.exc = "TypeError"]

\* the else branch of the loop of parse_tokens
skip_non_command(m) ==
    LET token == peek(m.tokenList).ret
    IN  do_skip_line(print_error(m, token.line, "Commands must begin with a string."))

\* one iteration of the while loop of parse_tokens
parse_iteration(m) ==
    LET token == peek(m.tokenList).ret
    IN  IF token.tokenType = TokenType_STRING
        THEN handle_command(m)
        ELSE skip_non_command(m)

\* the while loop of parse_tokens, to its return or to an exception
RECURSIVE parse_loop(_)
parse_loop(m) ==
    IF is_at_end(m.tokenList) \/ m.exc # "none"
    THEN m
    ELSE parse_loop(parse_iteration(m))

parse_tokens(tokenList) == parse_loop(Machine(tokenList))

\* ---- the build files the model runs on ----
MaxLines == 2
MaxLayoutLines == 3

S_a_c == <<"a", ".", "c">>
S_b_c == <<"b", ".", "c">>
S_app == <<"a", "p", "p">>
S_msvc == <<"m", "s", "v", "c">>
S_Foo == <<"F", "o", "o">>
NL == <<"\n">>

SimpleCommands == {S_SetProjectName, S_SetCompiler, S_SetLanguageVersion,
                   S_SetTargetArch, S_SetOutputType, S_SetBuildType}
ComplexCommands == {S_AddFile, S_AddSourcePath, S_AddConstant, S_AddIncludePath,
                    S_AddLibrary, S_AddObjectFile, S_AddCompilerFlag, S_AddLinkerFlag}

\* the text  name(args)\n
Call(name, args) == name \o <<"(">> \o args \o <<")">> \o NL

\* values tried for each Set command: two legal ones and an illegal one
ValuesFor(name) ==
    IF name = S_SetProjectName THEN {S_app, S_gcc}
    ELSE IF name = S_SetCompiler THEN {S_clang_cl, S_cl, S_msvc}
    ELSE IF name = S_SetLanguageVersion THEN {S_c11, S_c89, S_app}
    ELSE IF name = S_SetTargetArch THEN {S_32, S_64, S_app}
    ELSE IF name = S_SetOutputType THEN {S_shared, S_object, S_app}
    ELSE {S_debug, S_release, S_app}

SetLines == UNION {{Call(name, v) : v \in ValuesFor(name)} : name \in SimpleCommands}

AddLines ==
    {Call(name, S_a_c \o <<",", " ">> \o S_b_c) : name \in ComplexCommands}
    \cup {Call(S_AddFile, S_a_c),
          Call(S_AddFile, S_b_c \o <<",">> \o S_b_c \o <<",">> \o S_a_c)}

\* one line of each kind of syntax error
MissingLeftParen == {S_SetCompiler \o NL, S_AddFile \o NL}
MissingParameter == {S_SetCompiler \o <<"(">> \o NL, S_AddFile \o <<"(">> \o NL,
                     Call(S_AddFile, << >>)}
MissingRightParen == {S_SetCompiler \o <<"(">> \o S_clang \o NL,
                      S_AddFile \o <<"(">> \o S_a_c \o NL}
NotACommand == {<<" ", "(">> \o S_a_c \o <<")">> \o NL}
UnknownCommand == {Call(S_Foo, S_a_c)}
SyntaxErrorLines ==
    MissingLeftParen \cup MissingParameter \cup MissingRightParen
    \cup NotACommand \cup UnknownCommand

\* a parameter list that ends in a comma
TrailingComma == {Call(S_AddFile, S_a_c \o <<",">>)}

\* a Set command whose parameter is a punctuation character
PunctuationParameter == {Call(S_SetProjectName, <<",">>), Call(S_SetCompiler, <<",">>),
                         Call(S_SetProjectName, <<"(">>)}

\* lines without text: empty, and only spaces or tabs
BlankLines == {NL}
WhitespaceLines == {<<" ">> \o NL, <<"\t", " ">> \o NL}

\* last lines of a file that does not end in a line terminator
UnterminatedLines ==
    {S_AddFile \o <<"(">>, S_AddFile \o <<"(">> \o S_a_c,
     S_SetCompiler \o <<"(">>, S_SetCompiler \o <<"(">> \o S_clang \o <<")">>,
     S_AddFile \o <<"(">> \o S_a_c \o <<")">>}

Lines == SetLines \cup AddLines \cup SyntaxErrorLines \cup TrailingComma
         \cup PunctuationParameter \cup BlankLines \cup {<<" ">> \o NL}

\* the files over a set of lines: every line but the last ends in "\n"
Files(lines, lastLines, max) ==
    UNION {{f \in [1..n -> lines \cup lastLines] :
               \A i \in 1..(n - 1) : f[i] \in lines} : n \in 0..max}

LayoutLines == {Call(S_SetCompiler, S_clang_cl), Call(S_SetBuildType, S_debug),
                Call(S_AddFile, S_a_c \o <<",", " ">> \o S_b_c)}
               \cup BlankLines \cup WhitespaceLines

\* ---- the program ----
VARIABLES file, tokenList, compileInfo, hadError, stderr, exception, pc, prev,
          tokenStart, tokenEnd

vars == <<file, tokenList, compileInfo, hadError, stderr, exception, pc, prev,
         tokenStart, tokenEnd>>

\* the state the parser functions work on
Current ==
    [tokenList |-> tokenList, compileInfo |-> compileInfo, hadError |-> hadError,
     stderr |-> stderr, exc |-> exception]

\* prev: the state at the start of the latest iteration of the parse loop
NoIteration ==
    [n |-> 0, current |-> 0, compileInfo |-> CompileInfo, hadError |-> FALSE,
     stderr |-> << >>]

InitProgram ==
    /\ tokenList = TokenList(<< >>)
    /\ compileInfo = CompileInfo
    /\ hadError = FALSE
    /\ stderr = << >>
    /\ exception = "none"
    /\ pc = "scan"
    /\ prev = NoIteration
    /\ tokenStart = 0
    /\ tokenEnd = 0

Init ==
    /\ file \in Files(Lines, UnterminatedLines, MaxLines)
    /\ InitProgram

InitLayout ==
    /\ file \in Files(LayoutLines, {}, MaxLayoutLines)
    /\ InitProgram

\* main: tokenList = scan_file(buildFile)
ScanFile ==
    /\ pc = "scan"
    /\ tokenList' = scan_file(file)
    /\ pc' = "parse"
    /\ UNCHANGED <<tokenStart, tokenEnd>>
    /\ UNCHANGED <<file, compileInfo, hadError, stderr, exception, prev>>

\* the program state after one iteration of the parse loop that ended in m
Iterate(m) ==
    /\ tokenList' = m.tokenList
    /\ compileInfo' = m.compileInfo
    /\ hadError' = m.hadError
    /\ stderr' = m.stderr
    /\ exception' = m.exc
    /\ pc' = IF m.exc # "none" THEN "raised" ELSE "parse"
    /\ prev' = [n |-> prev.n + 1, current |-> tokenList.current,
                compileInfo |-> compileInfo, hadError |-> hadError,
                stderr |-> stderr]
    /\ UNCHANGED <<file, tokenStart, tokenEnd>>

\* parse_tokens: the next token is a STRING
HandleCommand ==
    /\ pc = "parse"
    /\ ~is_at_end(tokenList)
    /\ peek(tokenList).ret.tokenType = TokenType_STRING
    /\ Iterate(handle_command(Current))

\* parse_tokens: the next token is not a STRING
SkipNonCommand ==
    /\ pc = "parse"
    /\ ~is_at_end(tokenList)
    /\ peek(tokenList).ret.tokenType # TokenType_STRING
    /\ Iterate(skip_non_command(Current))

\* parse_tokens: the loop ends and compileInfo is returned
ParseReturn ==
    /\ pc = "parse"
    /\ is_at_end(tokenList)
    /\ pc' = "parsed"
    /\ UNCHANGED <<tokenStart, tokenEnd>>
    /\ UNCHANGED <<file, tokenList, compileInfo, hadError, stderr, exception, prev>>

\* main: if hadError: exit(1)
MainExit ==
    /\ pc = "parsed"
    /\ hadError
    /\ pc' = "exit1"
    /\ UNCHANGED <<tokenStart, tokenEnd>>
    /\ UNCHANGED <<file, tokenList, compileInfo, hadError, stderr, exception, prev>>

\* main going on to build_compile_command without looking at hadError
MainBuildCommand_unchecked ==
    /\ pc = "parsed"
    /\ pc' = "command"
    /\ UNCHANGED <<tokenStart, tokenEnd>>
    /\ UNCHANGED <<file, tokenList, compileInfo, hadError, stderr, exception, prev>>

\* main: command = build_compile_command(compileInfo)
MainBuildCommand ==
    /\ pc = "parsed"
    /\ ~hadError
    /\ pc' = "command"
    /\ UNCHANGED <<tokenStart, tokenEnd>>
    /\ UNCHANGED <<file, tokenList, compileInfo, hadError, stderr, exception, prev>>

Next ==
    \/ ScanFile
    \/ HandleCommand
    \/ SkipNonCommand
    \/ ParseReturn
    \/ MainExit
    \/ MainBuildCommand

Spec == Init /\ [][Next]_vars

SpecLayout == InitLayout /\ [][Next]_vars

\* ---- files with spaces and tabs around the tokens (SpecSpacing) ----
MaxInserted == 3

\* the texts of the tokens of a line, in order
ValidPieces ==
    {<<S_SetCompiler, <<"(">>, S_clang_cl, <<")">>, NL>>,
     <<S_AddFile, <<"(">>, S_a_c, <<",">>, S_b_c, <<")">>, NL>>}
OtherPieces == {<<<<")">>, NL>>}

\* the sequences of at most k spaces and tabs
RECURSIVE Whitespace(_)
Whitespace(k) ==
    IF k = 0
    THEN {<< >>}
    ELSE Whitespace(k - 1)
         \cup {<<c>> \o w : c \in {" ", "\t"},
                            w \in {v \in Whitespace(k - 1) : Len(v) = k - 1}}

\* the lines that write pieces with at most budget spaces and tabs put
\* before the pieces
RECURSIVE Spaced(_, _)
Spaced(pieces, budget) ==
    IF pieces = << >>
    THEN {<< >>}
    ELSE UNION {{w \o Head(pieces) \o rest :
                    rest \in Spaced(Tail(pieces), budget - Len(w))} :
                w \in Whitespace(budget)}

\* the line without its spaces and tabs
StripSpaces(line) == SelectSeq(line, LAMBDA c : c \notin {" ", "\t"})

InitSpacing ==
    /\ file \in {<<line>> :
                 line \in UNION {Spaced(pieces, MaxInserted) :
                                 pieces \in ValidPieces \cup OtherPieces}}
    /\ InitProgram

SpecSpacing == InitSpacing /\ [][Next]_vars

\* ---- one-line files over a small alphabet (SpecScan) ----
MaxChars == 3

\* a valid character, an invalid one, the punctuation and a space
ScanAlphabet == {"a", "#", "(", ")", ",", " "}

\* the texts of at most n characters of ScanAlphabet
Texts(n) == UNION {[1..k -> ScanAlphabet] : k \in 0..n}

InitScan ==
    /\ file \in {<<text \o NL>> : text \in Texts(MaxChars)}
                \cup {<<text>> : text \in Texts(MaxChars) \ {<< >>}}
    /\ InitProgram

SpecScan == InitScan /\ [][Next]_vars

\* ---- the TokenList operations from any cursor position (SpecTokenList) ----
MaxCursorLines == 2

\* the tokens of a scanned file with the cursor anywhere, also past the end
InitTokenList ==
    /\ file \in Files(LayoutLines, UnterminatedLines, MaxCursorLines)
    /\ \E current \in 0..(Len(scan_file(file).tokens) + 1) :
          tokenList = [scan_file(file) EXCEPT !.current = current]
    /\ compileInfo = CompileInfo
    /\ hadError = FALSE
    /\ stderr = << >>
    /\ exception = "none"
    /\ pc = "cursor"
    /\ prev = NoIteration
    /\ tokenStart = 0
    /\ tokenEnd = 0

\* tokenList.skip_line() from the cursor position
SkipLine ==
    /\ pc = "cursor"
    /\ tokenList' = skip_line(tokenList)
    /\ prev' = [prev EXCEPT !.n = 1, !.current = tokenList.current]
    /\ pc' = "skipped"
    /\ UNCHANGED <<tokenStart, tokenEnd>>
    /\ UNCHANGED <<file, compileInfo, hadError, stderr, exception>>

\* tokenList.advance() after it
AdvanceToken ==
    /\ pc = "skipped"
    /\ tokenList' = advance(tokenList).tl
    /\ pc' = "advanced"
    /\ UNCHANGED <<tokenStart, tokenEnd>>
    /\ UNCHANGED <<file, compileInfo, hadError, stderr, exception, prev>>

NextTokenList ==
    \/ SkipLine
    \/ AdvanceToken

SpecTokenList == InitTokenList /\ [][NextTokenList]_vars

\* ---- the while loop of scan_file over one line, step by step ----
\* the line being scanned, and what the loop has left to look at
ScannedLine == file[1]
InLine == tokenStart < Len(ScannedLine)

\* tokenList.add(tokenType, lexeme, line) for the first line of the file
add(tokenType, lexeme) ==
    [tokenList EXCEPT !.tokens = Append(@, Token(tokenType, lexeme, 1))]

\* prev in this loop: n is 0 before the first iteration has ended, 1 after
\* it and 2 after every later one; current is tokenStart during the latest
\* iteration that ended
EndIteration ==
    /\ tokenStart' = tokenEnd
    /\ tokenEnd' = tokenEnd + 1
    /\ prev' = [prev EXCEPT !.n = IF @ = 0 THEN 1 ELSE 2, !.current = tokenStart]

\* a line of the file that is not skipped as empty, before its first column
InitScanLoop ==
    /\ file \in {<<text \o NL>> : text \in Texts(MaxChars) \ {<< >>}}
                \cup {<<text>> : text \in Texts(MaxChars) \ {<< >>}}
    /\ tokenList = TokenList(<< >>)
    /\ compileInfo = CompileInfo
    /\ hadError = FALSE
    /\ stderr = << >>
    /\ exception = "none"
    /\ pc = "while"
    /\ prev = NoIteration
    /\ tokenStart = 0
    /\ tokenEnd = 0

\* ScanChar whose whitespace branch goes straight back to the loop test
ScanChar_continue_on_blank ==
    /\ pc = "while"
    /\ InLine
    /\ LET c == ScannedLine[tokenStart + 1]
       IN  IF c \in {" ", "\t", NUL}
           THEN UNCHANGED <<tokenList, tokenStart, tokenEnd, prev, pc>>
           ELSE IF c \in {"(", ")", ",", "\n"}
           THEN /\ tokenList' =
                      IF c = "(" THEN add(TokenType_LEFT_PAREN, S_lparen)
                      ELSE IF c = ")" THEN add(TokenType_RIGHT_PAREN, S_rparen)
                      ELSE IF c = "," THEN add(TokenType_COMMA, S_comma)
                      ELSE add(TokenType_LINE_END, S_newline)
                /\ EndIteration
                /\ pc' = "while"
           ELSE /\ pc' = "string"
                /\ UNCHANGED <<tokenList, tokenStart, tokenEnd, prev>>
    /\ UNCHANGED <<file, compileInfo, hadError, stderr, exception>>

\* one iteration of the while loop at a punctuation or whitespace character,
\* or its entry into the inner loop at any other character
ScanChar ==
    /\ pc = "while"
    /\ InLine
    /\ LET c == ScannedLine[tokenStart + 1]
       IN  IF c \in {"(", ")", ",", "\n", " ", "\t", NUL}
           THEN /\ tokenList' =
                      IF c = "(" THEN add(TokenType_LEFT_PAREN, S_lparen)
                      ELSE IF c = ")" THEN add(TokenType_RIGHT_PAREN, S_rparen)
                      ELSE IF c = "," THEN add(TokenType_COMMA, S_comma)
                      ELSE IF c = "\n" THEN add(TokenType_LINE_END, S_newline)
                      ELSE tokenList
                /\ EndIteration
                /\ pc' = "while"
           ELSE /\ pc' = "string"
                /\ UNCHANGED <<tokenList, tokenStart, tokenEnd, prev>>
    /\ UNCHANGED <<file, compileInfo, hadError, stderr, exception>>

\* the inner while: tokenEnd += 1 over a valid character
ScanStringChar ==
    /\ pc = "string"
    /\ tokenEnd < Len(ScannedLine)
    /\ is_valid_character(ScannedLine[tokenEnd + 1])
    /\ tokenEnd' = tokenEnd + 1
    /\ UNCHANGED <<file, tokenList, compileInfo, hadError, stderr, exception,
                   pc, prev, tokenStart>>

\* the inner while ends: the STRING token is added and the iteration ends
ScanAddString ==
    /\ pc = "string"
    /\ ~(tokenEnd < Len(ScannedLine) /\ is_valid_character(ScannedLine[tokenEnd + 1]))
    /\ tokenList' = add(TokenType_STRING, Slice(ScannedLine, tokenStart, tokenEnd))
    /\ EndIteration
    /\ pc' = "while"
    /\ UNCHANGED <<file, compileInfo, hadError, stderr, exception>>

\* the while loop ends
ScanLineDone ==
    /\ pc = "while"
    /\ ~InLine
    /\ pc' = "scanned"
    /\ UNCHANGED <<file, tokenList, compileInfo, hadError, stderr, exception,
                   prev, tokenStart, tokenEnd>>

NextScanLoop ==
    \/ ScanChar
    \/ ScanStringChar
    \/ ScanAddString
    \/ ScanLineDone

\* the loop is sequential code: it keeps taking its next step
SpecScanLoop == InitScanLoop /\ [][NextScanLoop]_vars /\ WF_vars(NextScanLoop)

\* ---- vocabulary of the properties ----
\* the token at 0-based position i, and its type (0 past the end)
Tok(i) == tokenList.tokens[i + 1]
TypeAt(i) == IF i >= 0 /\ i < Len(tokenList.tokens) THEN Tok(i).tokenType ELSE 0

\* the latest iteration of the parse loop began at token position Start
Iterated == prev.n > 0
Start == prev.current

\* the command table: command name -> field of the build configuration
FieldOf(name) ==
    CASE name = S_SetProjectName -> "projectName"
      [] name = S_SetCompiler -> "compiler"
      [] name = S_SetLanguageVersion -> "languageVersion"
      [] name = S_SetTargetArch -> "arch"
      [] name = S_SetOutputType -> "outputType"
      [] name = S_SetBuildType -> "buildType"
      [] name = S_AddFile -> "files"
      [] name = S_AddSourcePath -> "sourcePaths"
      [] name = S_AddConstant -> "constants"
      [] name = S_AddIncludePath -> "includePaths"
      [] name = S_AddLibrary -> "libraries"
      [] name = S_AddObjectFile -> "objectFiles"
      [] name = S_AddCompilerFlag -> "compilerFlags"
      [] name = S_AddLinkerFlag -> "linkerFlags"

ScalarFields == {FieldOf(name) : name \in SimpleCommands}
ListFields == {FieldOf(name) : name \in ComplexCommands}

\* v is a legal value of the Set command name (any string for SetProjectName)
IsLegal(name, v) ==
    CASE name = S_SetProjectName -> TRUE
      [] name = S_SetCompiler -> v \in {S_gcc, S_cl, S_clang, S_clang_cl}
      [] name = S_SetLanguageVersion -> v \in {S_c89, S_c99, S_c11, S_c17}
      [] name = S_SetTargetArch -> v \in {S_32, S_64}
      [] name = S_SetOutputType -> v \in {S_shared, S_object, S_executable}
      [] name = S_SetBuildType -> v \in {S_debug, S_release}

\* a line ends at position i: a LINE_END stands there, or the stream ends
EndsLineAt(i) == TypeAt(i) = TokenType_LINE_END \/ i = Len(tokenList.tokens)

\* the tokens from position s on are  name ( STRING )  and the end of the line
IsSetLineAt(s, name) ==
    /\ TypeAt(s) = TokenType_STRING /\ Tok(s).lexeme = name
    /\ TypeAt(s + 1) = TokenType_LEFT_PAREN
    /\ TypeAt(s + 2) = TokenType_STRING
    /\ TypeAt(s + 3) = TokenType_RIGHT_PAREN
    /\ EndsLineAt(s + 4)

\* the tokens from position s on are  name ( STRING (, STRING)* )  with n
\* parameters, and the end of the line
IsAddLineAt(s, name, n) ==
    /\ TypeAt(s) = TokenType_STRING /\ Tok(s).lexeme = name
    /\ TypeAt(s + 1) = TokenType_LEFT_PAREN
    /\ \A i \in 1..n : TypeAt(s + 2 * i) = TokenType_STRING
    /\ \A i \in 1..(n - 1) : TypeAt(s + 2 * i + 1) = TokenType_COMMA
    /\ TypeAt(s + 2 * n + 1) = TokenType_RIGHT_PAREN
    /\ EndsLineAt(s + 2 * n + 2)

ParamsAt(s, n) == [i \in 1..n |-> Tok(s + 2 * i).lexeme]

\* the cursor stands right after the first LINE_END at or after position s,
\* or at or past the end of the stream when there is none
LineEndsFrom(s) ==
    {j \in s..(Len(tokenList.tokens) - 1) : TypeAt(j) = TokenType_LINE_END}
CursorAfterLine(s) ==
    IF LineEndsFrom(s) = {}
    THEN tokenList.current >= Len(tokenList.tokens)
    ELSE \E j \in LineEndsFrom(s) :
            /\ \A k \in LineEndsFrom(s) : j <= k
            /\ tokenList.current = j + 1

\* the run is over: parse_tokens returned or an exception ended it
Finished == pc \in {"parsed", "exit1", "command", "raised"}

\* lines of the model's files by kind
LegalSetLines ==
    UNION {{Call(name, v) : v \in {w \in ValuesFor(name) : IsLegal(name, w)}} :
           name \in SimpleCommands}
IllegalSetLines == SetLines \ LegalSetLines
ValidLines == LegalSetLines \cup AddLines
MalformedLines == SyntaxErrorLines \cup IllegalSetLines
SetLinesOf(name) == {Call(name, v) : v \in ValuesFor(name)}

\* ---- C1 ----
\* C1: when an iteration of the parse loop starts at a well-formed line
\* SetX(v) with v legal for X, then after it the field of X equals v and the
\* iteration has printed no error (flag and stderr as before it); and in a
\* file of such lines only, each field ends with the value of the last line
\* that targets it.
C1_SetLegalValue ==
    /\ Iterated =>
          \A name \in SimpleCommands :
             (IsSetLineAt(Start, name) /\ IsLegal(name, Tok(Start + 2).lexeme)) =>
                /\ compileInfo[FieldOf(name)] = Tok(Start + 2).lexeme
                /\ hadError = prev.hadError
                /\ stderr = prev.stderr
                /\ exception = "none"
    /\ (Finished /\ \A i \in 1..Len(file) : file[i] \in LegalSetLines) =>
          \A name \in SimpleCommands : \A v \in ValuesFor(name) :
             (\E i \in 1..Len(file) :
                 /\ file[i] = Call(name, v)
                 /\ \A j \in (i + 1)..Len(file) : file[j] \notin SetLinesOf(name))
             => compileInfo[FieldOf(name)] = v

\* two lines set the compiler, the second one wins, and no error is printed
C1_Witness ==
    /\ file = <<Call(S_SetCompiler, S_clang_cl), Call(S_SetCompiler, S_cl)>>
    /\ prev.n = 2
    /\ compileInfo.compiler = S_cl
    /\ ~hadError
    /\ pc = "command"

\* ---- C2 ----
\* C2: when an iteration starts at a well-formed line SetX(v) with X other
\* than ProjectName and v not legal for X, then after it the field of X has
\* the value it had before, the error flag is set, no exception is raised and
\* the cursor stands at the start of the next line.
C2_SetIllegalValue ==
    Iterated =>
       \A name \in SimpleCommands \ {S_SetProjectName} :
          (IsSetLineAt(Start, name) /\ ~IsLegal(name, Tok(Start + 2).lexeme)) =>
             /\ compileInfo[FieldOf(name)] = prev.compileInfo[FieldOf(name)]
             /\ hadError
             /\ Len(stderr) = Len(prev.stderr) + 1
             /\ exception = "none"
             /\ CursorAfterLine(Start)

\* an illegal compiler after a legal one: the legal one stays, the run fails
C2_Witness ==
    /\ file = <<Call(S_SetCompiler, S_cl), Call(S_SetCompiler, S_msvc)>>
    /\ prev.n = 2
    /\ compileInfo.compiler = S_cl
    /\ hadError
    /\ pc = "exit1"

\* ---- C3 ----
\* C3: when an iteration starts at a well-formed line AddX(p1, ..., pn),
\* n >= 1, then after it the list of X is the list before it followed by
\* p1, ..., pn in that order, so a repeated line appends again.
C3_AddAppends ==
    Iterated =>
       \A name \in ComplexCommands : \A n \in 1..Len(tokenList.tokens) :
          IsAddLineAt(Start, name, n) =>
             /\ compileInfo[FieldOf(name)] =
                   prev.compileInfo[FieldOf(name)] \o ParamsAt(Start, n)
             /\ Len(compileInfo[FieldOf(name)]) =
                   Len(prev.compileInfo[FieldOf(name)]) + n
             /\ exception = "none"

\* the same AddFile line twice: four elements, in the order of the input
C3_Witness ==
    /\ file = <<Call(S_AddFile, S_a_c \o <<",", " ">> \o S_b_c),
                Call(S_AddFile, S_a_c \o <<",", " ">> \o S_b_c)>>
    /\ prev.n = 2
    /\ compileInfo.files = <<S_a_c, S_b_c, S_a_c, S_b_c>>
    /\ pc = "command"

\* ---- C4 ----
\* C4: for a file of one malformed line (missing "(", missing parameter,
\* missing ")", illegal value or first token not a STRING) followed by one or
\* more valid command lines, the finished run has raised no exception, has
\* printed exactly one error, and its build configuration is the one the valid
\* lines alone give.
C4_OneErrorThenAllApplied ==
    (/\ Finished
     /\ Len(file) >= 2
     /\ file[1] \in MalformedLines \ UnknownCommand
     /\ \A i \in 2..Len(file) : file[i] \in ValidLines)
    => /\ exception = "none"
       /\ Len(stderr) = 1
       /\ compileInfo = parse_tokens(scan_file(Tail(file))).compileInfo

\* ---- C5 ----
\* C5: when an iteration starts at a STRING token that is none of the 14
\* command names, then after it the error flag is set, the build configuration
\* is as before, and parsing goes on: no exception is raised and the cursor
\* stands right after the LINE_END of that line.
C5_UnknownCommandSkipped ==
    (/\ Iterated
     /\ TypeAt(Start) = TokenType_STRING
     /\ Tok(Start).lexeme \notin SimpleCommands \cup ComplexCommands)
    => /\ hadError
       /\ compileInfo = prev.compileInfo
       /\ exception = "none"
       /\ CursorAfterLine(Start)

\* ---- C6 ----
\* C6: parse_tokens never ends in an exception, whatever the tokens are.
C6_ParseRunsToCompletion == pc # "raised" /\ exception = "none"

\* ---- C7 ----
\* C7: when an iteration of the parse loop starts at the first token of a
\* malformed line, it prints at least one error message that carries the
\* number of that line, whether or not the error flag was set before.
C7_EveryMalformedLineReported ==
    (/\ Iterated
     /\ Start < Len(tokenList.tokens)
     /\ Start = 0 \/ TypeAt(Start - 1) = TokenType_LINE_END
     /\ file[Tok(Start).line] \in MalformedLines)
    => \E k \in (Len(prev.stderr) + 1)..Len(stderr) :
          stderr[k].line = Tok(Start).line

\* ---- C8 ----
\* C8: when an iteration starts at an Add command followed by "(" and then
\* immediately ")", then after it the error flag is set, the eight list
\* fields are as before, no exception is raised and the cursor stands at the
\* start of the next line.
C8_EmptyParameterList ==
    Iterated =>
       \A name \in ComplexCommands :
          (/\ TypeAt(Start) = TokenType_STRING /\ Tok(Start).lexeme = name
           /\ TypeAt(Start + 1) = TokenType_LEFT_PAREN
           /\ TypeAt(Start + 2) = TokenType_RIGHT_PAREN)
          => /\ hadError
             /\ \A f \in ListFields : compileInfo[f] = prev.compileInfo[f]
             /\ exception = "none"
             /\ CursorAfterLine(Start)

\* AddFile() after AddFile(a.c): the list keeps its one element, the run fails
C8_Witness ==
    /\ file = <<Call(S_AddFile, S_a_c), Call(S_AddFile, << >>)>>
    /\ prev.n = 2
    /\ compileInfo.files = <<S_a_c>>
    /\ hadError
    /\ tokenList.current = Len(tokenList.tokens)
    /\ pc = "exit1"

\* ---- C9 ----
\* the file without its empty and whitespace-only lines
IsLayoutLine(line) == line \in BlankLines \cup WhitespaceLines
WithoutLayoutLines(lines) == SelectSeq(lines, LAMBDA line : ~IsLayoutLine(line))

\* C9: for a file of valid command lines with empty or whitespace-only lines
\* between them, the finished run has the build configuration and the error
\* flag of the run on the file without those lines.
C9_LayoutLinesIgnored ==
    (/\ Finished
     /\ Len(file) >= 2
     /\ ~IsLayoutLine(file[1])
     /\ ~IsLayoutLine(file[Len(file)]))
    => LET plain == parse_tokens(scan_file(WithoutLayoutLines(file)))
       IN  /\ compileInfo = plain.compileInfo
           /\ hadError = plain.hadError

\* ---- C10 ----
\* C10: in every state the five enumerated scalar fields hold legal values.
C10_ScalarsLegal ==
    /\ compileInfo.compiler \in {S_gcc, S_cl, S_clang, S_clang_cl}
    /\ compileInfo.languageVersion \in {S_c89, S_c99, S_c11, S_c17}
    /\ compileInfo.arch \in {S_32, S_64}
    /\ compileInfo.outputType \in {S_shared, S_object, S_executable}
    /\ compileInfo.buildType \in {S_debug, S_release}

\* an illegal build type was rejected after a legal output type was stored
C10_Witness ==
    /\ file = <<Call(S_SetOutputType, S_shared), Call(S_SetBuildType, S_app)>>
    /\ prev.n = 2
    /\ compileInfo.outputType = S_shared
    /\ compileInfo.buildType = S_release
    /\ \E k \in 1..Len(stderr) : stderr[k].msg = "Invalid build type."
    /\ Finished

\* ---- C11 ----
\* C11: hadError is FALSE at the start and no step resets it; when
\* parse_tokens has returned with hadError set, the only step of main is the
\* exit, and build_compile_command is never reached with hadError set.
C11_ErrorFlagLatchesAndStopsRun ==
    /\ ~hadError
    /\ [][/\ hadError => hadError'
          /\ (pc = "parsed" /\ hadError) => pc' = "exit1"
          /\ pc' = "command" => ~hadError']_vars

\* an illegal value set the flag, parsing went on to the end, main exited
C11_Witness ==
    /\ file = <<Call(S_SetCompiler, S_msvc), Call(S_AddFile, S_a_c)>>
    /\ hadError
    /\ compileInfo.files = <<S_a_c>>
    /\ pc = "exit1"

\* ---- C12 ----
\* the file without the spaces and tabs of its lines
Unspaced(lines) == [i \in 1..Len(lines) |-> StripSpaces(lines[i])]
UnspacedValid ==
    \A i \in 1..Len(file) :
       StripSpaces(file[i]) \in UNION {Spaced(pieces, 0) : pieces \in ValidPieces}

\* C12: for a valid command line written with spaces and tabs before the
\* command name, between the tokens and before the line terminator, scan_file
\* gives the tokens (kind, lexeme and line, in order) of the line without
\* them, and the finished run has the same build configuration and error flag.
C12_SpacingIgnored ==
    (pc # "scan" /\ UnspacedValid) =>
       /\ tokenList.tokens = scan_file(Unspaced(file)).tokens
       /\ Finished =>
             LET plain == parse_tokens(scan_file(Unspaced(file)))
             IN  /\ compileInfo = plain.compileInfo
                 /\ hadError = plain.hadError

\* a tab before the name, a space after the comma, a space before the end
C12_Witness ==
    /\ file = <<<<"\t">> \o S_AddFile \o <<"(">> \o S_a_c \o <<",", " ">>
                \o S_b_c \o <<")", " ">> \o NL>>
    /\ compileInfo.files = <<S_a_c, S_b_c>>
    /\ ~hadError
    /\ pc = "command"

\* ---- C13 ----
\* no token of a later line is consumed: the cursor stands right after the
\* first LINE_END at or after position s, or at or past the end of the stream
\* when that LINE_END is the last token or there is none
NoLaterLineConsumed(s) ==
    IF LineEndsFrom(s) = {}
    THEN tokenList.current >= Len(tokenList.tokens)
    ELSE \E j \in LineEndsFrom(s) :
            /\ \A k \in LineEndsFrom(s) : j <= k
            /\ \/ tokenList.current = j + 1
               \/ j + 1 = Len(tokenList.tokens)
                  /\ tokenList.current >= Len(tokenList.tokens)

\* C13: when handle_command has returned for the command token at the start
\* of the iteration, on success or failure, the cursor stands right after the
\* LINE_END of the command's line: no token of a later line is consumed.
C13_CursorAfterOwnLine ==
    (Iterated /\ TypeAt(Start) = TokenType_STRING /\ exception = "none")
    => NoLaterLineConsumed(Start)

\* ---- C14 ----
Punctuation == {TokenType_COMMA, TokenType_LEFT_PAREN, TokenType_RIGHT_PAREN}

\* C14: when an iteration starts at a Set command whose token between the
\* parentheses is a COMMA, LEFT_PAREN or RIGHT_PAREN, the field is as before
\* and an error is printed; and no scalar field ever holds the lexeme of a
\* punctuation token.
C14_OnlyStringParameter ==
    /\ Iterated =>
          \A name \in SimpleCommands :
             (/\ TypeAt(Start) = TokenType_STRING /\ Tok(Start).lexeme = name
              /\ TypeAt(Start + 1) = TokenType_LEFT_PAREN
              /\ TypeAt(Start + 2) \in Punctuation
              /\ TypeAt(Start + 3) = TokenType_RIGHT_PAREN)
             => /\ compileInfo[FieldOf(name)] = prev.compileInfo[FieldOf(name)]
                /\ Len(stderr) > Len(prev.stderr)
    /\ \A f \in ScalarFields : compileInfo[f] \notin {S_lparen, S_rparen, S_comma}

\* ---- C15 ----
\* the tokens from position s on are  name ( STRING (, STRING)* , )  with n
\* parameters: the parameter list ends in a comma
IsTrailingCommaLineAt(s, name, n) ==
    /\ TypeAt(s) = TokenType_STRING /\ Tok(s).lexeme = name
    /\ TypeAt(s + 1) = TokenType_LEFT_PAREN
    /\ \A i \in 1..n : TypeAt(s + 2 * i) = TokenType_STRING
    /\ \A i \in 1..n : TypeAt(s + 2 * i + 1) = TokenType_COMMA
    /\ TypeAt(s + 2 * n + 2) = TokenType_RIGHT_PAREN

\* C15: when an iteration starts at an Add command whose parameter list ends
\* in a comma right before ")", as in AddX(a,), the ")" check fails: an error
\* is printed, the error flag is set and nothing is appended.
C15_TrailingCommaRejected ==
    Iterated =>
       \A name \in ComplexCommands : \A n \in 1..Len(tokenList.tokens) :
          IsTrailingCommaLineAt(Start, name, n) =>
             /\ Len(stderr) > Len(prev.stderr)
             /\ hadError
             /\ compileInfo[FieldOf(name)] = prev.compileInfo[FieldOf(name)]

\* ---- C16 ----
\* the maximal runs of valid characters of a text, in order; run is the run
\* that the characters read so far end in
RECURSIVE RunsFrom(_, _)
RunsFrom(text, run) ==
    IF text = << >>
    THEN IF run = << >> THEN << >> ELSE <<run>>
    ELSE IF is_valid_character(Head(text))
    THEN RunsFrom(Tail(text), Append(run, Head(text)))
    ELSE (IF run = << >> THEN << >> ELSE <<run>>) \o RunsFrom(Tail(text), << >>)
ValidRuns(text) == RunsFrom(text, << >>)

\* the tokens that carry line number i
TokensOfLine(i) == SelectSeq(tokenList.tokens, LAMBDA t : t.line = i)

\* C16: every STRING token of scan_file has a lexeme that is not empty, has
\* only valid characters, and is one of the maximal runs of valid characters
\* of its line; so no token comes from a character such as "#".
C16_StringTokensAreValidRuns ==
    pc # "scan" =>
       \A k \in 1..Len(tokenList.tokens) :
          LET t == tokenList.tokens[k]
          IN  t.tokenType = TokenType_STRING =>
                 /\ t.lexeme # << >>
                 /\ \A j \in 1..Len(t.lexeme) : is_valid_character(t.lexeme[j])
                 /\ \E r \in 1..Len(ValidRuns(file[t.line])) :
                       ValidRuns(file[t.line])[r] = t.lexeme

\* ---- C17 ----
\* the token type of a punctuation or line terminator character
TypeOfChar(c) ==
    CASE c = "(" -> TokenType_LEFT_PAREN
      [] c = ")" -> TokenType_RIGHT_PAREN
      [] c = "," -> TokenType_COMMA
      [] c = "\n" -> TokenType_LINE_END

\* the token types of the punctuation and terminator characters of a text
PunctuationOf(text) ==
    LET chars == SelectSeq(text, LAMBDA c : c \in {"(", ")", ",", "\n"})
    IN  [k \in 1..Len(chars) |-> TypeOfChar(chars[k])]

\* the types of the tokens of line i that are not STRING tokens
NonStringTypes(i) ==
    LET toks == SelectSeq(TokensOfLine(i),
                          LAMBDA t : t.tokenType # TokenType_STRING)
    IN  [k \in 1..Len(toks) |-> toks[k].tokenType]

\* C17: for every line other than a lone line terminator, the tokens of the
\* line that are not STRING tokens are, in order, one token for each
\* punctuation character and one LINE_END for the terminator; a line that is
\* only a line terminator gives no token.
C17_OneTokenPerPunctuation ==
    pc # "scan" =>
       \A i \in 1..Len(file) :
          IF file[i] = NL
          THEN TokensOfLine(i) = << >>
          ELSE NonStringTypes(i) = PunctuationOf(file[i])

\* ---- C18 ----
\* C18: peek is never called with the cursor at or past the end of the
\* tokens, that is, no call of peek raises IndexError.
C18_PeekOnlyBeforeEnd == exception # "IndexError"

\* ---- C19 ----
\* C19: skip_line from any cursor position ends with the cursor not before
\* that position: right after the first LINE_END at or after it, or past the
\* end of the tokens when there is none; and advance with the cursor at or
\* past the end gives None and still moves the cursor by one.
C19_SkipLineStopsAfterLineEnd ==
    /\ pc = "skipped" =>
          /\ tokenList.current >= prev.current
          /\ IF LineEndsFrom(prev.current) = {}
             THEN tokenList.current > Len(tokenList.tokens)
             ELSE \E j \in LineEndsFrom(prev.current) :
                     /\ \A k \in LineEndsFrom(prev.current) : j <= k
                     /\ tokenList.current = j + 1
    /\ is_at_end(tokenList) =>
          /\ advance(tokenList).ret = None
          /\ advance(tokenList).tl.current = tokenList.current + 1

\* from inside the first of two lines to the start of the second
C19_Witness ==
    /\ file = <<Call(S_SetCompiler, S_clang_cl), Call(S_SetBuildType, S_debug)>>
    /\ pc = "skipped"
    /\ prev.current = 2
    /\ tokenList.current = 5

\* ---- C20 ----
\* the command that began at position s has no parameter after its "(": an
\* Add command with no string there, a Set command with no token there
MissingParameterAt(s) ==
    /\ TypeAt(s) = TokenType_STRING
    /\ TypeAt(s + 1) = TokenType_LEFT_PAREN
    /\ \/ Tok(s).lexeme \in ComplexCommands /\ TypeAt(s + 2) # TokenType_STRING
       \/ Tok(s).lexeme \in SimpleCommands /\ s + 2 >= Len(tokenList.tokens)

\* the latest iteration failed: it printed an error, raised, or met a
\* missing parameter (reported or not)
IterationFailed ==
    \/ stderr # prev.stderr
    \/ exception # "none"
    \/ TypeAt(Start) # TokenType_STRING
    \/ MissingParameterAt(Start)

\* C20: an iteration of the parse loop changes at most the field of the
\* build configuration that its command names, and an iteration that fails
\* changes no field at all.
C20_OnlyNamedFieldChanges ==
    Iterated =>
        /\ \A f \in ScalarFields \cup ListFields :
              compileInfo[f] # prev.compileInfo[f] =>
                  /\ TypeAt(Start) = TokenType_STRING
                  /\ Tok(Start).lexeme \in SimpleCommands \cup ComplexCommands
                  /\ f = FieldOf(Tok(Start).lexeme)
        /\ DOMAIN compileInfo = ScalarFields \cup ListFields
        /\ IterationFailed => compileInfo = prev.compileInfo

\* a Set command, then an Add command that changes its list and nothing else
C20_Witness ==
    /\ file = <<Call(S_SetCompiler, S_cl), Call(S_AddFile, S_a_c)>>
    /\ prev.n = 2
    /\ prev.compileInfo = [CompileInfo EXCEPT !.compiler = S_cl]
    /\ compileInfo = [prev.compileInfo EXCEPT !.files = <<S_a_c>>]

ScanLoopAgreesWithScanLine ==
    pc = "scanned" => tokenList.tokens = scan_line(ScannedLine, 0, 0, 0, << >>)

====
